---- MODULE Spec2Model ----
(***************************************************************************)
(* The ephemeral form protocol of the content script                       *)
(* (src/src/contentScript/ephemeralFormProtocol.ts) and the brick that     *)
(* drives it, FormTransformer.transform                                    *)
(* (src/src/blocks/transformers/ephemeralForm/formTransformer.ts).         *)
(*                                                                         *)
(* One action is one run of the content script's event loop up to the next *)
(* await: the handlers of the protocol have no await in them, so each is   *)
(* one action; transform is cut at its awaits (createFrameSource,          *)
(* ensureSidebar, the registration promise).                               *)
(***************************************************************************)
EXTENDS Integers, Sequences, FiniteSets, TLC

\* ------------------------------------------------------------------ bounds
\* Nonces callers other than transform register forms under.
MaxDirectTokens == 1
\* Requests in one run: registerForm calls by callers other than transform,
\* plus invocations of FormTransformer.transform.
MaxRequests == 2
\* Longest argument list of one cancelForm(...formNonces) call.
MaxCancelLen == 3

\* Property names a service schema or a stored configuration may use.
MaxKeys == 2

\* Longest maxWaitMillis a caller of RunProcess passes, in polling intervals.
MaxWaitPolls == 2

\* Callers of the service locator in one run.
MaxCallers == 3
\* Runs of LazyLocatorFactory._refresh in one run.
MaxRefreshes == 3

DirectTokens == 1..MaxDirectTokens
\* The values uuidv4() can return to transform: apart from every nonce another
\* caller registers under (a version 4 UUID is 122 random bits).
TransformTokens == (MaxDirectTokens + 1)..(MaxDirectTokens + MaxRequests)
Tokens == DirectTokens \cup TransformTokens
Calls == 1..MaxRequests
\* One deferred promise per registerForm call, numbered as pDefer() makes them.
Handles == 1..MaxRequests

\* Values a form can be submitted with: null, {} and a nested object.
Values == {"null", "{}", "{a:{b:1}}"}

\* ------------------------------------------------------------- data types
FormDefinition(cancelable, submitCaption) ==
    [schema |-> "schema", uiSchema |-> "{}", cancelable |-> cancelable,
     submitCaption |-> submitCaption]

Definitions == {FormDefinition(TRUE, "Submit"), FormDefinition(FALSE, "Submit")}

\* What forms.get(nonce) yields for a nonce with no entry: undefined.
NoDefinition ==
    [schema |-> "undefined", uiSchema |-> "undefined", cancelable |-> FALSE,
     submitCaption |-> "undefined"]

NoForm == [definition |-> NoDefinition, registration |-> 0]

RegisteredForm(definition, registration) ==
    [definition |-> definition, registration |-> registration]

\* A deferred promise: the nonce registerForm made it for, and resettled for a
\* resolve() or reject() that reached it after it had settled (which a
\* promise ignores).
PendingPromise ==
    [state |-> "pending", value |-> "undefined", resettled |-> FALSE, nonce |-> 0]

\* The store and the promises together, as the protocol's functions see them.
Store(f, p) == [forms |-> f, promise |-> p]

EmptyStore == Store([t \in Tokens |-> NoForm], [h \in Handles |-> PendingPromise])

\* A protocol call as the messenger delivered it: its nonces, its outcome
\* ("ok" or the error thrown), the definition it returned and the store as
\* the call found it.
Call(op, args, outcome, value, before) ==
    [op |-> op, args |-> args, outcome |-> outcome, value |-> value,
     before |-> before]

NoCall == Call("none", <<>>, "none", NoDefinition, EmptyStore)

NoSource == [nonce |-> 0, opener |-> "undefined", mode |-> "undefined"]

VARIABLES
    forms,          \* the Map forms: nonce -> RegisteredForm (NoForm: no entry)
    promise,        \* handle -> the deferred promise registerForm returned
    nextHandle,     \* deferred promises pDefer() has made so far
    lastCall,       \* the latest protocol call (kept by ProtocolSpec only)
    pc,             \* call -> where transform is suspended
    location,       \* call -> transform's location argument, defaulted
    formDefinition, \* call -> the definition transform built
    frameNonce,     \* call -> uuidv4() of the call (0: none yet)
    frameSource,    \* call -> the URL createFrameSource built
    registration,   \* call -> the deferred promise of its registerForm (0: none)
    result,         \* call -> the promise transform returned to its caller
    aborted,        \* call -> the caller's abortSignal has fired
    abortListeners, \* calls whose listener is registered on their abortSignal
    controller,     \* call -> transform's AbortController
    panelListeners, \* calls whose PANEL_HIDING_EVENT listener is on the window
    modals,         \* nonces whose modal overlay is on the page
    sidebarOpen,    \* the sidebar host is showing
    sidebarForms,   \* nonces of the form entries in the sidebar
    teardowns       \* nonce -> how often its surface was removed

\* The service locator of the background page (src/src/services/locator.ts).
VARIABLES
    initialized,    \* LazyLocatorFactory._initialized
    refreshPromise, \* _refreshPromise: the run of _refresh it holds (0: undefined)
    refreshes,      \* run of _refresh -> "none", "pending", "fulfilled", "rejected"
    waiters,        \* run of _refresh -> the callers awaiting it, in await order
    jobs,           \* the microtask queue of the background page
    caller          \* caller -> its call of refresh, locate or locateAllForService

\* The configurations locate and locateAllForService return (locator.ts).
VARIABLES
    service,        \* the service registry.lookup(serviceId) returns
    options,        \* this.options of that service: the stored configurations
    located         \* stored configuration -> what the locator returned for it

\* One call of RunProcess.transform (src/unnamed/part_003).
VARIABLES
    blockArg,       \* awaitResult and maxWaitMillis, defaulted
    runPc,          \* where transform is suspended
    startRequests,  \* StartJobs requests sent through proxyService
    pollRequests,   \* Jobs?$filter requests sent through proxyService
    startResponse,  \* responsePromise: its state and the jobs it reports
    uipathJob,      \* the started job at the orchestrator
    elapsed,        \* milliseconds since pollUntilTruthy was called
    observed,       \* the job states the polls have seen so far
    runResult       \* the promise transform returned

protocolVars == <<forms, promise, nextHandle, lastCall>>
callVars == <<pc, location, formDefinition, frameNonce, frameSource, registration,
              result, aborted, abortListeners, controller, panelListeners>>
surfaceVars == <<modals, sidebarOpen, sidebarForms, teardowns>>
locatorVars == <<initialized, refreshPromise, refreshes, waiters, jobs, caller>>
lookupVars == <<service, options, located>>
processVars == <<blockArg, runPc, startRequests, pollRequests, startResponse,
                 uipathJob, elapsed, observed, runResult>>
formVars == <<protocolVars, callVars, surfaceVars>>
vars == <<formVars, locatorVars, lookupVars, processVars>>
\* What a step of one component leaves alone.
besidesForms == <<locatorVars, lookupVars, processVars>>
besidesLocator == <<formVars, lookupVars, processVars>>
besidesLookup == <<formVars, locatorVars, processVars>>
besidesProcess == <<formVars, locatorVars, lookupVars>>

\* ----------------------------------------------------- deferred promises
\* registration.resolve(values)
resolve(p, h, values) ==
    IF p[h].state = "pending"
    THEN [p EXCEPT ![h].state = "fulfilled", ![h].value = values]
    ELSE [p EXCEPT ![h].resettled = TRUE]

\* registration.reject(new CancelError("User cancelled the action"))
reject(p, h, error) ==
    IF p[h].state = "pending"
    THEN [p EXCEPT ![h].state = "rejected", ![h].value = error]
    ELSE [p EXCEPT ![h].resettled = TRUE]

\* ------------------------------------------------------------ the protocol
registerForm_cancelPrevious(st, h, nonce, definition) ==
    LET previous == st.forms[nonce]
        p == IF previous = NoForm
             THEN st.promise
             ELSE reject(st.promise, previous.registration, "CancelError")
    IN Store([st.forms EXCEPT ![nonce] = RegisteredForm(definition, h)],
             [p EXCEPT ![h].nonce = nonce])

\* registerForm(nonce, definition), h the deferred promise pDefer() made.
registerForm(st, h, nonce, definition) ==
    Store([st.forms EXCEPT ![nonce] = RegisteredForm(definition, h)],
          [st.promise EXCEPT ![h].nonce = nonce])

unregisterForm_keep(st, formNonce) == st

unregisterForm_clear(st, formNonce) ==
    Store([t \in Tokens |-> NoForm], st.promise)

unregisterForm(st, formNonce) ==
    Store([st.forms EXCEPT ![formNonce] = NoForm], st.promise)

getFormDefinition_default(st, nonce) ==
    [outcome |-> "ok", value |-> st.forms[nonce].definition]

\* forms.get(nonce).definition: a TypeError when the entry is undefined.
getFormDefinition(st, nonce) ==
    IF st.forms[nonce] = NoForm
    THEN [outcome |-> "TypeError", value |-> NoDefinition]
    ELSE [outcome |-> "ok", value |-> st.forms[nonce].definition]

resolveForm_unchecked(st, formNonce, values) ==
    [st |-> unregisterForm(st, formNonce), outcome |-> "ok"]

resolveForm_undefined(st, formNonce, values) ==
    LET form == st.forms[formNonce] IN
    IF form = NoForm
    THEN [st |-> st, outcome |-> "Error: Form not registered"]
    ELSE [st |-> unregisterForm(
                    Store(st.forms, resolve(st.promise, form.registration, "undefined")),
                    formNonce),
          outcome |-> "ok"]

resolveForm(st, formNonce, values) ==
    LET form == st.forms[formNonce] IN
    IF form = NoForm
    THEN [st |-> st, outcome |-> "Error: Form not registered"]
    ELSE [st |-> unregisterForm(
                    Store(st.forms, resolve(st.promise, form.registration, values)),
                    formNonce),
          outcome |-> "ok"]

cancelOne_resolve(st, formNonce) ==
    LET form == st.forms[formNonce] IN
    unregisterForm(
        IF form = NoForm
        THEN st
        ELSE Store(st.forms, resolve(st.promise, form.registration, "undefined")),
        formNonce)

cancelOne_keep(st, formNonce) ==
    LET form == st.forms[formNonce] IN
    IF form = NoForm
    THEN st
    ELSE Store(st.forms, reject(st.promise, form.registration, "CancelError"))

\* One iteration of cancelForm's loop.
cancelOne(st, formNonce) ==
    LET form == st.forms[formNonce] IN
    unregisterForm(
        IF form = NoForm
        THEN st
        ELSE Store(st.forms, reject(st.promise, form.registration, "CancelError")),
        formNonce)

RECURSIVE cancelLoop(_, _)
cancelLoop(st, formNonces) ==
    IF formNonces = <<>>
    THEN st
    ELSE cancelLoop(cancelOne(st, Head(formNonces)), Tail(formNonces))

cancelForm_strict(st, formNonces) ==
    IF \E i \in 1..Len(formNonces) : st.forms[formNonces[i]] = NoForm
    THEN [st |-> st, outcome |-> "Error: Form not registered"]
    ELSE [st |-> cancelLoop(st, formNonces), outcome |-> "ok"]

cancelForm_first(st, formNonces) ==
    [st |-> IF formNonces = <<>> THEN st ELSE cancelOne(st, Head(formNonces)),
     outcome |-> "ok"]

cancelForm(st, formNonces) ==
    [st |-> cancelLoop(st, formNonces), outcome |-> "ok"]

\* ------------------------------------------------------- rendering surfaces
\* showModal({url, controller}): the overlay of the frame with this nonce.
showModal(ms, nonce) == ms \cup {nonce}

\* What showModal hangs on controller.signal: the overlay is removed.
removeModal(ms, nonce) == ms \ {nonce}

\* showSidebarForm({extensionId, nonce, form}): a form entry in the sidebar.
showSidebarForm(sf, nonce) == sf \cup {nonce}

\* hideSidebarForm(nonce): that entry removed.
hideSidebarForm(sf, nonce) == sf \ {nonce}

\* ------------------------------------------ the synchronous part of a step
\* Everything nested synchronous calls of one step can change.
World ==
    [forms |-> forms, promise |-> promise, pc |-> pc, result |-> result,
     controller |-> controller, panelListeners |-> panelListeners,
     modals |-> modals, sidebarForms |-> sidebarForms, teardowns |-> teardowns]

WithStore(w, st) == [w EXCEPT !.forms = st.forms, !.promise = st.promise]

StoreOf(w) == Store(w.forms, w.promise)

\* void cancelForm(frameNonce), as transform's listeners call it.
voidCancelForm(w, nonce) == WithStore(w, cancelForm(StoreOf(w), <<nonce>>).st)

sidebarAbortListener_hideAll(w, c) ==
    voidCancelForm(
        [w EXCEPT !.sidebarForms = {},
                  !.teardowns[frameNonce[c]] = @ + 1],
        frameNonce[c])

sidebarAbortListener_hideOnly(w, c) ==
    [w EXCEPT !.sidebarForms = hideSidebarForm(w.sidebarForms, frameNonce[c]),
              !.teardowns[frameNonce[c]] = @ + 1]

\* The "abort" listener transform puts on controller.signal in sidebar mode.
sidebarAbortListener(w, c) ==
    voidCancelForm(
        [w EXCEPT !.sidebarForms = hideSidebarForm(w.sidebarForms, frameNonce[c]),
                  !.teardowns[frameNonce[c]] = @ + 1],
        frameNonce[c])

\* The "abort" listener showModal puts on controller.signal.
modalAbortListener(w, c) ==
    [w EXCEPT !.modals = removeModal(w.modals, frameNonce[c]),
              !.teardowns[frameNonce[c]] = @ + 1]

\* controller.abort(): the signal fires once; the window listener registered
\* with {signal} goes with it.
controllerAbort(w, c) ==
    IF w.controller[c] # "active"
    THEN w
    ELSE LET wa == [w EXCEPT !.controller[c] = "aborted",
                             !.panelListeners = @ \ {c}]
         IN IF location[c] = "sidebar"
            THEN sidebarAbortListener(wa, c)
            ELSE modalAbortListener(wa, c)

\* try { return await registerForm(...) } finally { controller.abort() }, once
\* the registration promise has settled.
finally(w, c) ==
    LET wa == controllerAbort(w, c) IN
    [wa EXCEPT !.pc[c] = "done",
               !.result[c] = [state |-> w.promise[registration[c]].state,
                              value |-> w.promise[registration[c]].value]]

Settled(w) ==
    {c \in Calls : /\ w.pc[c] = "registerForm"
                   /\ registration[c] # 0
                   /\ w.promise[registration[c]].state # "pending"}

\* The microtasks that follow a step: every transform whose registration
\* promise the step settled resumes before the next event is handled.
RECURSIVE microtasks(_)
microtasks(w) ==
    IF Settled(w) = {}
    THEN w
    ELSE microtasks(finally(w, CHOOSE c \in Settled(w) : TRUE))

\* The PANEL_HIDING_EVENT listeners, each calling controller.abort().
RECURSIVE panelHiding(_, _)
panelHiding(w, listeners) ==
    IF listeners = {}
    THEN w
    ELSE LET c == CHOOSE x \in listeners : TRUE
         IN panelHiding(controllerAbort(w, c), listeners \ {c})

\* --------------------------------------------- the other pages of the run
Callers == 1..MaxCallers
Refreshes == 1..MaxRefreshes

\* A caller that has no call of the locator under way. awaiting is the
\* _refreshPromise the caller's refresh() awaits and joined the state that
\* promise was in when the await began.
IdleCaller ==
    [op |-> "none", pc |-> "idle", awaiting |-> 0, joined |-> "none",
     outcome |-> "none"]

\* new LazyLocatorFactory(): _initialized = false, _refreshPromise undefined.
LocatorIdle ==
    /\ initialized = FALSE
    /\ refreshPromise = 0
    /\ refreshes = [r \in Refreshes |-> "none"]
    /\ waiters = [r \in Refreshes |-> <<>>]
    /\ jobs = <<>>
    /\ caller = [k \in Callers |-> IdleCaller]

\* The public methods of LazyLocatorFactory that may refresh.
Ops == {"refresh", "locate", "locateAllForService"}

\* A job of the microtask queue: the body of a call, the continuation of
\* _refresh after its Promise.all, the continuation of refresh() after its
\* await, or the continuation of locate after its await of refresh().
Job(kind, k, r, ok) == [kind |-> kind, k |-> k, r |-> r, ok |-> ok]

\* The promise a new call of _refresh() returns.
NewRefresh == CHOOSE r \in Refreshes :
                 /\ refreshes[r] = "none"
                 /\ \A q \in Refreshes : refreshes[q] = "none" => r <= q

\* this._refreshPromise ?? this._refresh()
refreshPromiseOrNew(marker) == IF marker = 0 THEN NewRefresh ELSE marker

\* refresh() up to its await: the caller joins the marked promise or starts
\* _refresh, which begins both reads before it returns its promise.
refresh(k) ==
    LET p == refreshPromiseOrNew(refreshPromise)
        state == IF refreshPromise = 0 THEN "pending" ELSE refreshes[p]
    IN /\ refreshPromise = 0 => \E r \in Refreshes : refreshes[r] = "none"
       /\ refreshPromise' = p
       /\ refreshes' = [refreshes EXCEPT ![p] = state]
       /\ IF state = "pending"
          THEN /\ waiters' = [waiters EXCEPT ![p] = Append(@, k)]
               /\ jobs' = Tail(jobs)
          ELSE /\ waiters' = waiters
               /\ jobs' = Append(Tail(jobs), Job("cont", k, p, TRUE))
       /\ caller' = [caller EXCEPT ![k].pc = "awaiting", ![k].awaiting = p,
                                   ![k].joined = state]
       /\ UNCHANGED initialized

\* Some code of the background page calls a method of the locator; the call
\* runs when the jobs queued before it have run.
Schedule(k, op) ==
    /\ caller[k].pc = "idle"
    /\ caller' = [caller EXCEPT ![k].op = op, ![k].pc = "scheduled"]
    /\ jobs' = Append(jobs, Job("call", k, 0, TRUE))
    /\ UNCHANGED <<initialized, refreshPromise, refreshes, waiters>>
    /\ UNCHANGED besidesLocator

\* The body of the call: refresh() itself, or locate / locateAllForService,
\* which refresh only when the factory is not initialized.
RunCall ==
    /\ jobs # <<>>
    /\ Head(jobs).kind = "call"
    /\ LET k == Head(jobs).k
       IN IF caller[k].op = "refresh" \/ ~initialized
          THEN refresh(k)
          ELSE /\ caller' = [caller EXCEPT ![k].pc = "done",
                                           ![k].outcome = "located"]
               /\ jobs' = Tail(jobs)
               /\ UNCHANGED <<initialized, refreshPromise, refreshes, waiters>>
    /\ UNCHANGED besidesLocator

\* Both reads of a running _refresh have finished, or one has failed: the
\* continuation of _refresh is queued.
IOCompletes(r, ok) ==
    /\ refreshes[r] = "pending"
    /\ \A i \in 1..Len(jobs) : ~(jobs[i].kind = "settle" /\ jobs[i].r = r)
    /\ jobs' = Append(jobs, Job("settle", 0, r, ok))
    /\ UNCHANGED <<initialized, refreshPromise, refreshes, waiters, caller>>
    /\ UNCHANGED besidesLocator

\* _refresh after its await: on success initializeOptions() and
\* _initialized = true; its promise settles and the continuations of the
\* callers awaiting it are queued in the order they began to await.
RunSettle ==
    /\ jobs # <<>>
    /\ Head(jobs).kind = "settle"
    /\ LET r == Head(jobs).r
           ok == Head(jobs).ok
       IN /\ initialized' = (initialized \/ ok)
          /\ refreshes' = [refreshes EXCEPT
                             ![r] = IF ok THEN "fulfilled" ELSE "rejected"]
          /\ jobs' = Tail(jobs) \o
                       [i \in 1..Len(waiters[r]) |->
                            Job("cont", waiters[r][i], r, TRUE)]
          /\ waiters' = [waiters EXCEPT ![r] = <<>>]
    /\ UNCHANGED <<refreshPromise, caller>>
    /\ UNCHANGED besidesLocator

\* refresh() after its await: the finally block, then it returns or rethrows.
RunCont ==
    /\ jobs # <<>>
    /\ Head(jobs).kind = "cont"
    /\ LET k == Head(jobs).k
           r == Head(jobs).r
           error == refreshes[r] = "rejected"
       IN /\ refreshPromise' = 0
          /\ IF caller[k].op = "refresh"
             THEN /\ caller' = [caller EXCEPT
                                  ![k].pc = "done",
                                  ![k].outcome = IF error THEN "error"
                                                 ELSE "refreshed"]
                  /\ jobs' = Tail(jobs)
             ELSE /\ caller' = [caller EXCEPT ![k].pc = "returning"]
                  /\ jobs' = Append(Tail(jobs), Job("after", k, r, ~error))
    /\ UNCHANGED <<initialized, refreshes, waiters>>
    /\ UNCHANGED besidesLocator

\* locate / locateAllForService after await this.refresh(): the error of the
\* refresh is the error of the call; otherwise the lookup goes on.
RunAfter ==
    /\ jobs # <<>>
    /\ Head(jobs).kind = "after"
    /\ LET k == Head(jobs).k
       IN caller' = [caller EXCEPT
                       ![k].pc = "done",
                       ![k].outcome = IF Head(jobs).ok THEN "located"
                                      ELSE "error"]
    /\ jobs' = Tail(jobs)
    /\ UNCHANGED <<initialized, refreshPromise, refreshes, waiters>>
    /\ UNCHANGED besidesLocator

\* The caller has its result and may call again.
Return(k) ==
    /\ caller[k].pc = "done"
    /\ caller' = [caller EXCEPT ![k] = IdleCaller]
    /\ UNCHANGED <<initialized, refreshPromise, refreshes, waiters, jobs>>
    /\ UNCHANGED besidesLocator

\* No service has been looked up.
NoService == [properties |-> <<>>, hasAuth |-> FALSE]

LookupIdle ==
    /\ service = NoService
    /\ options = <<>>
    /\ located = <<>>

\* The $ref values that mark a property of a service schema as a secret.
REF_SECRETS ==
    << "https://app.pixiebrix.com/schemas/key#",
       "https://app.pixiebrix.com/schemas/key" >>

Keys == 1..MaxKeys
\* The $ref of a property's type: none, a secret, or another schema.
TypeRefs ==
    {"undefined", REF_SECRETS[1], REF_SECRETS[2],
     "https://app.pixiebrix.com/schemas/database#"}
\* The properties of a service schema: declared name -> $ref of its type.
SchemaProperties == UNION {[D -> TypeRefs] : D \in SUBSET Keys}
ConfigValues == {"a", "b"}
\* A stored configuration: the properties it has, declared or not.
KeyedConfigs == UNION {[D -> ConfigValues] : D \in SUBSET Keys}
Services == [properties : SchemaProperties, hasAuth : BOOLEAN]
\* The authIds of the configurations stored for the service.
AuthIds == {1, 2}
RawConfigurations == [local : BOOLEAN, config : KeyedConfigs]

\* inputProperties(service.schema): the schema's properties object.
inputProperties(schema) == schema.properties

\* REF_SECRETS.includes(ref)
includes(list, ref) == \E i \in DOMAIN list : list[i] = ref

\* config[key]: undefined for a property the configuration does not have.
get(config, key) == IF key \in DOMAIN config THEN config[key] ELSE "undefined"

excludeSecrets_firstRef(svc, config) ==
    LET props == inputProperties(svc)
    IN [key \in {x \in DOMAIN props : props[x] # REF_SECRETS[1]} |->
            get(config, key)]

\* Return config excluding any secrets/keys.
excludeSecrets(svc, config) ==
    LET props == inputProperties(svc)
    IN [key \in {x \in DOMAIN props : ~includes(REF_SECRETS, props[x])} |->
            get(config, key)]

\* The SanitizedServiceConfiguration locate and locateAllForService build.
sanitized(svc, id, match) ==
    [id |-> id, proxy |-> svc.hasAuth /\ ~match.local,
     config |-> excludeSecrets(svc, match.config)]

NotLocated == [id |-> 0, proxy |-> FALSE, config |-> <<>>]

\* The factory is initialized; registry.lookup finds any service and
\* this.options holds any two configurations of it.
LookupReady ==
    /\ service \in Services
    /\ options \in [AuthIds -> RawConfigurations]
    /\ located = [id \in AuthIds |-> NotLocated]

\* locate(serviceId, authId) of a stored configuration.
Locate(authId) ==
    /\ located[authId] = NotLocated
    /\ located' = [located EXCEPT
                     ![authId] = sanitized(service, authId, options[authId])]
    /\ UNCHANGED <<service, options>>
    /\ UNCHANGED besidesLookup

\* locateAllForService(serviceId): every stored configuration, sanitized.
LocateAllForService ==
    /\ \E id \in AuthIds : located[id] = NotLocated
    /\ located' = [id \in AuthIds |-> sanitized(service, id, options[id])]
    /\ UNCHANGED <<service, options>>
    /\ UNCHANGED besidesLookup

\* --------------------------------------------------------- RunProcess
DEFAULT_MAX_WAIT_MILLIS == 30000
POLL_MILLIS == 1000

\* A JavaScript value or error, by kind and content.
Value(kind, v) == [kind |-> kind, v |-> v]
undefined == Value("undefined", "")
BusinessError(message) == Value("BusinessError", message)

\* transform has not been called.
NoArg == [awaitResult |-> FALSE, maxWaitMillis |-> 0]
NoResponse == [state |-> "none", jobs |-> 0]
NoJob == [State |-> "Missing", OutputArguments |-> "null"]
PendingResult == [state |-> "pending", value |-> undefined]
returned(v) == [state |-> "fulfilled", value |-> v]
thrown(e) == [state |-> "rejected", value |-> e]

\* The maxWaitMillis a caller passes: nothing, or some polling intervals.
MaxWaitArgs ==
    {[given |-> FALSE, millis |-> 0]}
        \cup {[given |-> TRUE, millis |-> i * POLL_MILLIS] : i \in 0..MaxWaitPolls}
\* How many jobs the StartJobs response reports.
StartedJobs == {0, 1, 2}
\* The OutputArguments of a finished job: JSON text, null for no outputs.
OutputArguments ==
    {"{\"total\":1}", "{}", "null", "0", "false", "\"\""}
\* The State of a job that is not yet finished.
Unfinished == {"Pending", "Running"}

\* JSON.parse of the texts above.
JSONparse(text) ==
    CASE text = "{\"total\":1}" -> Value("object", "total: 1")
      [] text = "{}" -> Value("object", "")
      [] text = "null" -> Value("null", "")
      [] text = "0" -> Value("number", "0")
      [] text = "false" -> Value("boolean", "false")
      [] text = "\"\"" -> Value("string", "")

\* if (value): every object is truthy; null, 0, false, "" and undefined
\* are not.
truthy(value) ==
    /\ value.kind \notin {"null", "undefined"}
    /\ ~(value.kind = "number" /\ value.v = "0")
    /\ ~(value.kind = "boolean" /\ value.v = "false")
    /\ ~(value.kind = "string" /\ value.v = "")

\* const poll: what one look at the job returns or throws.
poll(job) ==
    IF job.State = "Missing"
    THEN thrown(BusinessError("UiPath job not found"))
    ELSE IF job.State = "Successful"
    THEN returned(JSONparse(job.OutputArguments))
    ELSE IF job.State = "Faulted"
    THEN thrown(BusinessError("UiPath job failed"))
    ELSE returned(undefined)

transformSync_await(arg) == [pc |-> "awaitStart", result |-> PendingResult]

\* transform up to its first await: the request is under way; without
\* awaitResult the call returns {} at once.
transformSync(arg) ==
    IF ~arg.awaitResult
    THEN [pc |-> "done", result |-> returned(Value("object", ""))]
    ELSE [pc |-> "awaitStart", result |-> PendingResult]

\* transform(args): proxyService sends the StartJobs request.
RunProcessTransform(awaitResult, maxWaitMillis) ==
    /\ runPc = "idle"
    /\ LET arg == [awaitResult |-> awaitResult,
                   maxWaitMillis |-> IF maxWaitMillis.given
                                     THEN maxWaitMillis.millis
                                     ELSE DEFAULT_MAX_WAIT_MILLIS]
       IN /\ blockArg' = arg
          /\ runPc' = transformSync(arg).pc
          /\ runResult' = transformSync(arg).result
    /\ startRequests' = startRequests + 1
    /\ startResponse' = [state |-> "pending", jobs |-> 0]
    /\ UNCHANGED <<pollRequests, uipathJob, elapsed, observed>>
    /\ UNCHANGED besidesProcess

\* The StartJobs request fails: the awaiting transform fails with its error.
StartFails ==
    /\ startResponse.state = "pending"
    /\ startResponse' = [state |-> "rejected", jobs |-> 0]
    /\ IF runPc = "awaitStart"
       THEN /\ runPc' = "done"
            /\ runResult' = thrown(Value("Error", "request failed"))
       ELSE UNCHANGED <<runPc, runResult>>
    /\ UNCHANGED <<blockArg, startRequests, pollRequests, uipathJob, elapsed,
                   observed>>
    /\ UNCHANGED besidesProcess

\* The StartJobs response arrives with n jobs. An awaiting transform refuses
\* several jobs, fails on startData.value[0].Id of none, and otherwise calls
\* pollUntilTruthy, which sends the first poll.
StartResponds(n, out) ==
    /\ startResponse.state = "pending"
    /\ startResponse' = [state |-> "fulfilled", jobs |-> n]
    /\ uipathJob' = IF n = 0 THEN NoJob
                    ELSE [State |-> "Pending", OutputArguments |-> out]
    /\ IF runPc # "awaitStart"
       THEN UNCHANGED <<runPc, runResult, pollRequests>>
       ELSE IF n > 1
       THEN /\ runPc' = "done"
            /\ runResult' = thrown(BusinessError(
                   "Awaiting response of multiple jobs not supported"))
            /\ UNCHANGED pollRequests
       ELSE IF n = 0
       THEN /\ runPc' = "done"
            /\ runResult' = thrown(Value("TypeError", "startData.value[0]"))
            /\ UNCHANGED pollRequests
       ELSE /\ runPc' = "awaitPoll"
            /\ pollRequests' = pollRequests + 1
            /\ UNCHANGED runResult
    /\ UNCHANGED <<blockArg, startRequests, elapsed, observed>>
    /\ UNCHANGED besidesProcess

\* The orchestrator runs the job, finishes it, or no longer lists it.
JobAdvances(state) ==
    /\ startResponse.state = "fulfilled"
    /\ startResponse.jobs = 1
    /\ \/ uipathJob.State = "Pending" /\ state = "Running"
       \/ uipathJob.State = "Running" /\ state \in {"Successful", "Faulted"}
       \/ uipathJob.State # "Missing" /\ state = "Missing"
    /\ uipathJob' = [uipathJob EXCEPT !.State = state]
    /\ UNCHANGED <<blockArg, runPc, startRequests, pollRequests, startResponse,
                   elapsed, observed, runResult>>
    /\ UNCHANGED besidesProcess

\* The response of a poll arrives. pollUntilTruthy returns a truthy result
\* of poll to transform, which returns it; it passes on what poll throws;
\* otherwise it sleeps for intervalMillis.
PollResponds ==
    /\ runPc = "awaitPoll"
    /\ observed' = observed \cup {uipathJob.State}
    /\ LET looked == poll(uipathJob)
       IN IF looked.state = "rejected" \/ truthy(looked.value)
          THEN /\ runPc' = "done"
               /\ runResult' = looked
          ELSE /\ runPc' = "sleeping"
               /\ UNCHANGED runResult
    /\ UNCHANGED <<blockArg, startRequests, pollRequests, startResponse,
                   uipathJob, elapsed>>
    /\ UNCHANGED besidesProcess

\* The request of a poll fails: transform fails with its error.
PollFails ==
    /\ runPc = "awaitPoll"
    /\ runPc' = "done"
    /\ runResult' = thrown(Value("Error", "request failed"))
    /\ UNCHANGED <<blockArg, startRequests, pollRequests, startResponse,
                   uipathJob, elapsed, observed>>
    /\ UNCHANGED besidesProcess

\* sleep(intervalMillis) is over: pollUntilTruthy polls again while the
\* wait has not run out, else returns undefined and transform throws.
Sleep ==
    /\ runPc = "sleeping"
    /\ elapsed' = elapsed + POLL_MILLIS
    /\ IF elapsed' < blockArg.maxWaitMillis
       THEN /\ runPc' = "awaitPoll"
            /\ pollRequests' = pollRequests + 1
            /\ UNCHANGED runResult
       ELSE /\ runPc' = "done"
            /\ runResult' = thrown(BusinessError("UiPath job did not finish"))
            /\ UNCHANGED pollRequests
    /\ UNCHANGED <<blockArg, startRequests, startResponse, uipathJob, observed>>
    /\ UNCHANGED besidesProcess

ProcessIdle ==
    /\ blockArg = NoArg
    /\ runPc = "idle"
    /\ startRequests = 0
    /\ pollRequests = 0
    /\ startResponse = NoResponse
    /\ uipathJob = NoJob
    /\ elapsed = 0
    /\ observed = {}
    /\ runResult = PendingResult

\* A step of the content script: the background page is another process.
Commit(w) ==
    /\ UNCHANGED besidesForms
    /\ forms' = w.forms
    /\ promise' = w.promise
    /\ pc' = w.pc
    /\ result' = w.result
    /\ controller' = w.controller
    /\ panelListeners' = w.panelListeners
    /\ modals' = w.modals
    /\ sidebarForms' = w.sidebarForms
    /\ teardowns' = w.teardowns

\* -------------------------------------------------------------------- Init
FormsIdle ==
    /\ forms = EmptyStore.forms
    /\ promise = EmptyStore.promise
    /\ nextHandle = 0
    /\ lastCall = NoCall
    /\ pc = [c \in Calls |-> "idle"]
    /\ location = [c \in Calls |-> "undefined"]
    /\ formDefinition = [c \in Calls |-> NoDefinition]
    /\ frameNonce = [c \in Calls |-> 0]
    /\ frameSource = [c \in Calls |-> NoSource]
    /\ registration = [c \in Calls |-> 0]
    /\ result = [c \in Calls |-> [state |-> "pending", value |-> "undefined"]]
    /\ aborted = [c \in Calls |-> FALSE]
    /\ abortListeners = {}
    /\ controller = [c \in Calls |-> "none"]
    /\ panelListeners = {}
    /\ modals = {}
    /\ sidebarOpen \in BOOLEAN
    /\ sidebarForms = {}
    /\ teardowns = [t \in Tokens |-> 0]

Init ==
    /\ FormsIdle
    /\ LocatorIdle
    /\ LookupIdle
    /\ ProcessIdle

\* ------------------------------------- protocol calls from the messenger
TokenLists == UNION {[1..n -> Tokens] : n \in 0..MaxCancelLen}

UnchangedByProtocol ==
    UNCHANGED <<location, formDefinition, frameNonce, frameSource, registration,
                aborted, abortListeners, sidebarOpen>>

\* Requests begun: the promises made, and the transform calls yet to register.
Requests ==
    nextHandle + Cardinality({c \in Calls : pc[c] \in {"createFrameSource", "ensureSidebar"}})

\* The handlers, as the messenger runs them (all but the record of the call).
RegisterFormHandler(nonce, definition) ==
    /\ Requests < MaxRequests
    /\ nextHandle' = nextHandle + 1
    /\ Commit(WithStore(World,
            registerForm(StoreOf(World), nextHandle + 1, nonce, definition)))
    /\ UnchangedByProtocol

GetFormDefinitionHandler_consume(nonce) ==
    /\ Commit(WithStore(World, unregisterForm(StoreOf(World), nonce)))
    /\ UNCHANGED nextHandle
    /\ UnchangedByProtocol

GetFormDefinitionHandler(nonce) ==
    /\ Commit(World)
    /\ UNCHANGED nextHandle
    /\ UnchangedByProtocol

ResolveFormHandler(formNonce, values) ==
    /\ Commit(microtasks(WithStore(World,
            resolveForm(StoreOf(World), formNonce, values).st)))
    /\ UNCHANGED nextHandle
    /\ UnchangedByProtocol

CancelFormHandler(formNonces) ==
    /\ Commit(microtasks(WithStore(World, cancelForm(StoreOf(World), formNonces).st)))
    /\ UNCHANGED nextHandle
    /\ UnchangedByProtocol

\* The calls of the whole system: no record is kept of them.
RegisterForm(nonce, definition) ==
    RegisterFormHandler(nonce, definition) /\ lastCall' = NoCall

GetFormDefinition(nonce) ==
    GetFormDefinitionHandler(nonce) /\ lastCall' = NoCall

ResolveForm(formNonce, values) ==
    ResolveFormHandler(formNonce, values) /\ lastCall' = NoCall

CancelForm(formNonces) ==
    CancelFormHandler(formNonces) /\ lastCall' = NoCall

\* The same calls with the call and its outcome recorded in lastCall.
RegisterFormCall(nonce, definition) ==
    /\ RegisterFormHandler(nonce, definition)
    /\ lastCall' = Call("registerForm", <<nonce>>, "ok", NoDefinition, StoreOf(World))

GetFormDefinitionCall(nonce) ==
    /\ GetFormDefinitionHandler(nonce)
    /\ lastCall' = Call("getFormDefinition", <<nonce>>,
                         getFormDefinition(StoreOf(World), nonce).outcome,
                         getFormDefinition(StoreOf(World), nonce).value,
                         StoreOf(World))

ResolveFormCall(formNonce, values) ==
    /\ ResolveFormHandler(formNonce, values)
    /\ lastCall' = Call("resolveForm", <<formNonce>>,
                         resolveForm(StoreOf(World), formNonce, values).outcome,
                         NoDefinition, StoreOf(World))

CancelFormCall(formNonces) ==
    /\ CancelFormHandler(formNonces)
    /\ lastCall' = Call("cancelForm", formNonces,
                         cancelForm(StoreOf(World), formNonces).outcome, NoDefinition,
                         StoreOf(World))

\* --------------------------------------------- FormTransformer.transform
LocationArgs == {"undefined", "modal", "sidebar", "popover"}
CancelableArgs == {"undefined"}

Least(S) == CHOOSE t \in S : \A u \in S : t <= u

uuidv4_reused == Least(TransformTokens)

\* uuidv4(): a nonce no call has been given (which one is immaterial: the
\* least of them).
uuidv4 == Least(TransformTokens \ {frameNonce[d] : d \in Calls})

\* transform up to its first await: the argument defaults, uuidv4(), and the
\* call of createFrameSource, which awaits getThisFrame().
TransformStart(c, locationArg, cancelableArg) ==
    /\ pc[c] = "idle"
    /\ \A d \in Calls : d < c => pc[d] # "idle"
    /\ Requests < MaxRequests
    /\ frameNonce' = [frameNonce EXCEPT ![c] = uuidv4]
    /\ location' = [location EXCEPT
                      ![c] = IF locationArg = "undefined" THEN "modal" ELSE locationArg]
    /\ formDefinition' = [formDefinition EXCEPT
                            ![c] = FormDefinition(cancelableArg = "undefined", "Submit")]
    /\ Commit([World EXCEPT !.pc[c] = "createFrameSource"])
    /\ UNCHANGED <<frameSource, registration, aborted, abortListeners, sidebarOpen,
                   nextHandle>>
    /\ lastCall' = NoCall

\* createFrameSource(nonce, mode): the URL of ephemeralForm.html with its
\* search parameters.
createFrameSource(nonce, mode) ==
    [nonce |-> nonce, opener |-> "thisFrame", mode |-> mode]

FrameSourceReady_showEarly(c) ==
    /\ pc[c] = "createFrameSource"
    /\ frameSource' = [frameSource EXCEPT
                         ![c] = createFrameSource(frameNonce[c], location[c])]
    /\ abortListeners' = abortListeners \cup {c}
    /\ IF location[c] = "sidebar"
       THEN /\ Commit([World EXCEPT !.controller[c] = "active",
                                    !.sidebarForms = showSidebarForm(@, frameNonce[c]),
                                    !.pc[c] = "ensureSidebar"])
            /\ UNCHANGED <<registration, nextHandle>>
       ELSE /\ Commit(WithStore(
                    [World EXCEPT !.controller[c] = "active",
                                  !.modals = showModal(@, frameNonce[c]),
                                  !.pc[c] = "registerForm"],
                    registerForm(StoreOf(World), nextHandle + 1, frameNonce[c],
                                 formDefinition[c])))
            /\ registration' = [registration EXCEPT ![c] = nextHandle + 1]
            /\ nextHandle' = nextHandle + 1
    /\ UNCHANGED <<location, formDefinition, frameNonce, aborted, sidebarOpen>>
    /\ lastCall' = NoCall

\* transform from the return of createFrameSource to its next await:
\* ensureSidebar() in sidebar mode, the registration promise otherwise.
FrameSourceReady(c) ==
    /\ pc[c] = "createFrameSource"
    /\ frameSource' = [frameSource EXCEPT
                         ![c] = createFrameSource(frameNonce[c], location[c])]
    /\ abortListeners' = abortListeners \cup {c}
    /\ IF location[c] = "sidebar"
       THEN /\ Commit([World EXCEPT !.controller[c] = "active",
                                    !.pc[c] = "ensureSidebar"])
            /\ UNCHANGED <<registration, nextHandle>>
       ELSE /\ Commit(WithStore(
                    [World EXCEPT !.controller[c] = "active",
                                  !.modals = showModal(@, frameNonce[c]),
                                  !.pc[c] = "registerForm"],
                    registerForm(StoreOf(World), nextHandle + 1, frameNonce[c],
                                 formDefinition[c])))
            /\ registration' = [registration EXCEPT ![c] = nextHandle + 1]
            /\ nextHandle' = nextHandle + 1
    /\ UNCHANGED <<location, formDefinition, frameNonce, aborted, sidebarOpen>>
    /\ lastCall' = NoCall

\* ensureSidebar() resolved: the form entry, the two listeners, registerForm.
SidebarReady(c) ==
    /\ pc[c] = "ensureSidebar"
    /\ sidebarOpen' = TRUE
    /\ Commit(WithStore(
            [World EXCEPT !.sidebarForms = showSidebarForm(@, frameNonce[c]),
                          !.panelListeners = @ \cup {c},
                          !.pc[c] = "registerForm"],
            registerForm(StoreOf(World), nextHandle + 1, frameNonce[c],
                         formDefinition[c])))
    /\ registration' = [registration EXCEPT ![c] = nextHandle + 1]
    /\ nextHandle' = nextHandle + 1
    /\ UNCHANGED <<location, formDefinition, frameNonce, frameSource, aborted,
                   abortListeners>>
    /\ lastCall' = NoCall

\* ensureSidebar() rejected: transform throws before its try block.
SidebarFailed(c) ==
    /\ pc[c] = "ensureSidebar"
    /\ Commit([World EXCEPT !.pc[c] = "done",
                            !.result[c] = [state |-> "rejected",
                                           value |-> "SidebarError"]])
    /\ UNCHANGED <<location, formDefinition, frameNonce, frameSource, registration,
                   aborted, abortListeners, sidebarOpen, nextHandle>>
    /\ lastCall' = NoCall

\* The caller's abortSignal fires: the listener of line 124, if registered.
Abort(c) ==
    /\ pc[c] # "idle"
    /\ ~aborted[c]
    /\ aborted' = [aborted EXCEPT ![c] = TRUE]
    /\ Commit(microtasks(IF c \in abortListeners
                         THEN voidCancelForm(World, frameNonce[c])
                         ELSE World))
    /\ UNCHANGED <<location, formDefinition, frameNonce, frameSource, registration,
                   abortListeners, sidebarOpen, nextHandle>>
    /\ lastCall' = NoCall

\* The sidebar is closed: PANEL_HIDING_EVENT is dispatched on the window.
PanelHidden ==
    /\ sidebarOpen
    /\ sidebarOpen' = FALSE
    /\ Commit(microtasks(panelHiding(World, panelListeners)))
    /\ UNCHANGED <<location, formDefinition, frameNonce, frameSource, registration,
                   aborted, abortListeners, nextHandle>>
    /\ lastCall' = NoCall

\* -------------------------------------------------------------------- Next
Next ==
    \/ \E nonce \in DirectTokens, definition \in Definitions :
          RegisterForm(nonce, definition)
    \/ \E nonce \in Tokens : GetFormDefinition(nonce)
    \/ \E formNonce \in Tokens, values \in Values : ResolveForm(formNonce, values)
    \/ \E formNonces \in TokenLists : CancelForm(formNonces)
    \/ \E c \in Calls, locationArg \in LocationArgs, cancelableArg \in CancelableArgs :
          TransformStart(c, locationArg, cancelableArg)
    \/ \E c \in Calls : FrameSourceReady(c)
    \/ \E c \in Calls : SidebarReady(c)
    \/ \E c \in Calls : SidebarFailed(c)
    \/ \E c \in Calls : Abort(c)
    \/ PanelHidden

Spec == Init /\ [][Next]_vars

\* transform runs on once an awaited promise settles; whether a user, a caller
\* or the sidebar ever acts is not the content script's to decide.
Fairness ==
    \A c \in Calls :
        /\ WF_vars(FrameSourceReady(c))
        /\ WF_vars(SidebarReady(c) \/ SidebarFailed(c))

FairSpec == Spec /\ Fairness

\* The protocol alone, driven by arbitrary callers, each call recorded.
NextProtocol ==
    \/ \E nonce \in Tokens, definition \in Definitions :
          RegisterFormCall(nonce, definition)
    \/ \E nonce \in Tokens : GetFormDefinitionCall(nonce)
    \/ \E formNonce \in Tokens, values \in Values : ResolveFormCall(formNonce, values)
    \/ \E formNonces \in TokenLists : CancelFormCall(formNonces)

InitProtocol == Init /\ ~sidebarOpen

ProtocolSpec == InitProtocol /\ [][NextProtocol]_vars

\* The locator of the background page, called by any code of that page.
NextLocator ==
    \/ \E k \in Callers, op \in Ops : Schedule(k, op)
    \/ RunCall
    \/ \E r \in Refreshes, ok \in BOOLEAN : IOCompletes(r, ok)
    \/ RunSettle
    \/ RunCont
    \/ RunAfter
    \/ \E k \in Callers : Return(k)

LocatorSpec == InitProtocol /\ [][NextLocator]_vars

\* Lookups by an initialized locator, for any schema and stored configurations.
InitLookup ==
    /\ FormsIdle
    /\ ~sidebarOpen
    /\ LocatorIdle
    /\ ProcessIdle
    /\ LookupReady

NextLookup ==
    \/ \E authId \in AuthIds : Locate(authId)
    \/ LocateAllForService

LookupSpec == InitLookup /\ [][NextLookup]_vars

\* One call of RunProcess.transform against any orchestrator.
NextProcess ==
    \/ \E awaitResult \in BOOLEAN, maxWaitMillis \in MaxWaitArgs :
          RunProcessTransform(awaitResult, maxWaitMillis)
    \/ StartFails
    \/ \E n \in StartedJobs, out \in OutputArguments : StartResponds(n, out)
    \/ \E state \in Unfinished \cup {"Successful", "Faulted", "Missing"} :
          JobAdvances(state)
    \/ PollResponds
    \/ PollFails
    \/ Sleep

ProcessSpec == InitProtocol /\ [][NextProcess]_vars

\* ================================================================= claims
Range(seq) == {seq[i] : i \in 1..Len(seq)}

NotRegistered == "Error: Form not registered"

Fulfilled(v) == [state |-> "fulfilled", value |-> v]

Rejected(e) == [state |-> "rejected", value |-> e]

Outcome(h) == [state |-> promise[h].state, value |-> promise[h].value]

\* The store and the promises as the latest recorded call found them.
before == lastCall.before

\* The handles no other promise shares its nonce with: registered once.
Sole(h) == \A g \in Handles \ {h} : promise[g].nonce # promise[h].nonce

\* C1: once a registration promise is resolved or rejected, no later
\* resolveForm or cancelForm changes its outcome, and none reaches it again: a
\* promise is settled at most once.
SingleSettlement ==
    \A h \in Handles :
        before.promise[h].state # "pending" => promise[h] = before.promise[h]

\* A cancelForm on the nonce of a promise that resolveForm had fulfilled.
SingleSettlementWitness ==
    \E h \in Handles :
        /\ before.promise[h].state = "fulfilled"
        /\ lastCall.op = "cancelForm"
        /\ promise[h].nonce \in Range(lastCall.args)
        /\ Sole(h)

\* C2: resolveForm(token, V) on a pending token fulfils the promise registerForm
\* returned with exactly V, and the transform call awaiting it returns V.
ResolveDeliversValue ==
    [][\A t \in Tokens, v \in Values :
          (ResolveForm(t, v) /\ forms[t] # NoForm) =>
              /\ promise'[forms[t].registration].state = "fulfilled"
              /\ promise'[forms[t].registration].value = v
              /\ \A c \in Calls :
                    (pc[c] = "registerForm" /\ registration[c] = forms[t].registration)
                        => (pc'[c] = "done" /\ result'[c] = Fulfilled(v))]_vars

\* Two transform calls have returned, one null and one a nested object.
ResolveDeliversValueWitness ==
    \E c, d \in Calls :
        /\ result[c] = Fulfilled("null")
        /\ result[d] = Fulfilled("{a:{b:1}}")
        /\ Outcome(registration[c]) = Fulfilled("null")

\* C3: cancelForm on a pending token rejects the promise registerForm returned
\* with the CancelError, and a rejected promise never becomes fulfilled.
CancelRejects ==
    /\ \A t \in Tokens :
          (lastCall.op = "cancelForm" /\ t \in Range(lastCall.args)
              /\ before.forms[t] # NoForm)
            => Outcome(before.forms[t].registration) = Rejected("CancelError")
    /\ \A h \in Handles :
          before.promise[h].state = "rejected" => promise[h].state = "rejected"

\* A resolveForm on the nonce of a promise cancelForm had rejected.
CancelRejectsWitness ==
    \E h \in Handles :
        /\ before.promise[h].state = "rejected"
        /\ Outcome(h) = Rejected("CancelError")
        /\ lastCall.op = "resolveForm"
        /\ lastCall.args = <<promise[h].nonce>>
        /\ Sole(h)

\* C4: a caller's abort that fires while transform is pending makes transform
\* reject in the end; it does not stay pending for ever.
AbortEventuallyRejects ==
    \A c \in Calls :
        (aborted[c] /\ result[c].state = "pending") ~> (result[c].state = "rejected")

Displayed(c) == frameNonce[c] \in modals \/ frameNonce[c] \in sidebarForms

\* C5: no surface of a transform call is on display once the request has
\* settled or its caller has aborted, and no surface is removed twice.
SurfaceTornDownOnce ==
    /\ \A c \in Calls : (aborted[c] \/ result[c].state # "pending") => ~Displayed(c)
    /\ \A t \in Tokens : teardowns[t] <= 1

\* C6: resolveForm on a token with no entry throws the not-registered error,
\* settles nothing and leaves the store as it was.
ResolveUnknownFails ==
    (lastCall.op = "resolveForm" /\ before.forms[lastCall.args[1]] = NoForm)
        => /\ lastCall.outcome = NotRegistered
           /\ forms = before.forms
           /\ promise = before.promise

\* A second resolveForm on a token whose promise the first one fulfilled.
ResolveUnknownFailsWitness ==
    \E h \in Handles :
        /\ before.promise[h].state = "fulfilled"
        /\ lastCall.op = "resolveForm"
        /\ lastCall.args = <<promise[h].nonce>>
        /\ lastCall.outcome = NotRegistered
        /\ Sole(h)

\* C7: cancelForm on tokens that have no entry does not throw, settles no
\* promise and leaves the store as it was.
CancelUnknownIsNoop ==
    (lastCall.op = "cancelForm"
        /\ \A t \in Range(lastCall.args) : before.forms[t] = NoForm)
        => /\ lastCall.outcome = "ok"
           /\ forms = before.forms
           /\ promise = before.promise

\* A cancelForm on a nonce never registered and on one already settled, with
\* another form pending.
CancelUnknownIsNoopWitness ==
    \E h \in Handles, t \in Tokens :
        /\ lastCall.op = "cancelForm"
        /\ Len(lastCall.args) = 2
        /\ lastCall.outcome = "ok"
        /\ \A g \in Handles : promise[g].nonce # lastCall.args[1]
        /\ promise[h].nonce = lastCall.args[2]
        /\ before.promise[h].state = "fulfilled"
        /\ Sole(h)
        /\ forms[t] # NoForm

\* C8: one cancelForm call, whatever nonces it names and however often, does
\* not throw, leaves no entry under any of them, rejects the promise of each
\* entry it found exactly once, and touches nothing else.
MultiCancel ==
    lastCall.op = "cancelForm" =>
        /\ lastCall.outcome = "ok"
        /\ \A t \in Tokens :
              IF t \in Range(lastCall.args)
              THEN forms[t] = NoForm
              ELSE forms[t] = before.forms[t]
        /\ \A h \in Handles :
              IF \E t \in Range(lastCall.args) :
                    before.forms[t] # NoForm /\ before.forms[t].registration = h
              THEN promise[h] = [before.promise[h] EXCEPT !.state = "rejected",
                                                          !.value = "CancelError"]
              ELSE promise[h] = before.promise[h]

\* cancelForm(A, B, A) with A pending and B never registered has rejected A's
\* promise.
MultiCancelWitness ==
    \E h \in Handles :
        /\ lastCall.op = "cancelForm"
        /\ Len(lastCall.args) = 3
        /\ lastCall.args[1] = lastCall.args[3]
        /\ lastCall.args[2] # lastCall.args[1]
        /\ \A g \in Handles : promise[g].nonce # lastCall.args[2]
        /\ before.forms[lastCall.args[1]].registration = h
        /\ before.promise[h].state = "pending"
        /\ Outcome(h) = Rejected("CancelError")

\* C9: getFormDefinition on a token with no entry throws; it returns no
\* definition.
LookupUnknownFails ==
    (lastCall.op = "getFormDefinition" /\ before.forms[lastCall.args[1]] = NoForm)
        => (lastCall.outcome = "TypeError" /\ lastCall.value = NoDefinition)

\* getFormDefinition on a token whose form had been resolved.
LookupUnknownFailsWitness ==
    \E h \in Handles :
        /\ promise[h].state = "fulfilled"
        /\ lastCall.op = "getFormDefinition"
        /\ lastCall.args = <<promise[h].nonce>>
        /\ lastCall.outcome = "TypeError"
        /\ Sole(h)

\* C10: the store holds no entry whose promise is settled.
NoSettledEntry ==
    \A t \in Tokens : forms[t] # NoForm => promise[forms[t].registration].state = "pending"

\* One request settled and its entry gone, while another is still pending.
NoSettledEntryWitness ==
    \E h \in Handles, t \in Tokens :
        /\ promise[h].state # "pending"
        /\ forms[promise[h].nonce] = NoForm
        /\ forms[t] # NoForm

\* C11: of a resolveForm and a cancelForm for the same token, the one delivered
\* first settles the promise and the other changes nothing: a cancelForm that
\* comes after the resolveForm returns normally and leaves the promise
\* fulfilled with the value it had, a resolveForm that comes after the
\* cancelForm throws the not-registered error and leaves the promise rejected
\* with the CancelError.
FirstDeliveredWins ==
    \A h \in Handles :
        Sole(h) =>
            /\ (lastCall.op = "cancelForm" /\ promise[h].nonce \in Range(lastCall.args)
                    /\ before.promise[h].state = "fulfilled")
                 => /\ lastCall.outcome = "ok"
                    /\ promise[h] = before.promise[h]
                    /\ promise[h].value \in Values
                    /\ forms[promise[h].nonce] = NoForm
            /\ (lastCall.op = "resolveForm" /\ lastCall.args = <<promise[h].nonce>>
                    /\ before.promise[h].state = "rejected")
                 => /\ lastCall.outcome = NotRegistered
                    /\ promise[h] = before.promise[h]
                    /\ promise[h].value = "CancelError"
                    /\ forms[promise[h].nonce] = NoForm

\* One cancelForm naming two tokens: the first had been resolved, so the
\* cancellation lost there, the second was pending, so it won there.
FirstDeliveredWinsWitness ==
    \E g, h \in Handles :
        /\ lastCall.op = "cancelForm"
        /\ lastCall.args = <<promise[g].nonce, promise[h].nonce>>
        /\ Sole(g)
        /\ before.promise[g].state = "fulfilled"
        /\ Outcome(g) = Fulfilled("{}")
        /\ before.promise[h].state = "pending"
        /\ Outcome(h) = Rejected("CancelError")

\* C12: registerForm on a token that has a pending entry fails and leaves the
\* entry, its definition and its promise as they were.
DuplicateRegisterFails ==
    (lastCall.op = "registerForm" /\ before.forms[lastCall.args[1]] # NoForm)
        => /\ lastCall.outcome # "ok"
           /\ forms = before.forms
           /\ promise = before.promise

\* C13: no token has two unsettled promises or two surfaces, and no two
\* transform calls have the same nonce.
OnePendingPerToken ==
    /\ \A g, h \in Handles :
          (g # h /\ promise[g].nonce # 0 /\ promise[g].nonce = promise[h].nonce)
              => ~(promise[g].state = "pending" /\ promise[h].state = "pending")
    /\ \A t \in Tokens : ~(t \in modals /\ t \in sidebarForms)
    /\ \A c, d \in Calls :
          (c # d /\ frameNonce[c] # 0) => frameNonce[c] # frameNonce[d]

\* C14: once transform has settled, neither its PANEL_HIDING_EVENT listener on
\* the window nor its listener on the caller's abortSignal is registered.
ListenersReleased ==
    \A c \in Calls :
        result[c].state # "pending" => (c \notin panelListeners /\ c \notin abortListeners)

\* C15: a PANEL_HIDING_EVENT delivered while a sidebar request is pending
\* cancels it: transform rejects with the CancelError, the nonce's entry leaves
\* the store and its form entry leaves the sidebar.
PanelHiddenCancels ==
    [][PanelHidden =>
          \A c \in Calls :
              (location[c] = "sidebar" /\ pc[c] = "registerForm")
                  => /\ pc'[c] = "done"
                     /\ result'[c] = Rejected("CancelError")
                     /\ forms'[frameNonce[c]] = NoForm
                     /\ frameNonce[c] \notin sidebarForms']_vars

\* A sidebar request rejected with the CancelError and its form entry removed,
\* the sidebar hidden and the caller's abortSignal never fired.
PanelHiddenCancelsWitness ==
    \E c \in Calls :
        /\ location[c] = "sidebar"
        /\ registration[c] # 0
        /\ result[c] = Rejected("CancelError")
        /\ ~aborted[c]
        /\ ~sidebarOpen
        /\ forms[frameNonce[c]] = NoForm
        /\ frameNonce[c] \notin sidebarForms
        /\ teardowns[frameNonce[c]] = 1

\* What a step leaves of call c as it was: its result, its promise, its entry
\* and its surface.
Untouched(c) ==
    /\ result'[c] = result[c]
    /\ pc'[c] = pc[c]
    /\ registration[c] # 0 => promise'[registration[c]] = promise[registration[c]]
    /\ forms'[frameNonce[c]] = forms[frameNonce[c]]
    /\ teardowns'[frameNonce[c]] = teardowns[frameNonce[c]]
    /\ (frameNonce[c] \in modals') = (frameNonce[c] \in modals)
    /\ (frameNonce[c] \in sidebarForms') = (frameNonce[c] \in sidebarForms)

\* C16: of the cancellation sources of a transform call (its caller's
\* abortSignal, the PANEL_HIDING_EVENT), the first to fire on the pending
\* request rejects it with the CancelError and removes its surface, and a
\* source that fires after another has fired changes nothing of the call: the
\* promise is rejected once and the surface removed once.
CancellationSourcesOnce ==
    [][\A c \in Calls :
          /\ ((Abort(c) \/ (PanelHidden /\ location[c] = "sidebar"))
                  /\ pc[c] = "registerForm")
               => /\ result'[c] = Rejected("CancelError")
                  /\ promise'[registration[c]].resettled = FALSE
                  /\ teardowns'[frameNonce[c]] = 1
                  /\ frameNonce[c] \notin modals' \cup sidebarForms'
          /\ (PanelHidden /\ (aborted[c] \/ controller[c] = "aborted")) => Untouched(c)
          /\ (Abort(c) /\ controller[c] = "aborted") => Untouched(c)]_vars

\* A resolveForm or a cancelForm for nonce t is delivered in this step: by the
\* messenger, or as the void cancelForm(frameNonce) of transform's listeners.
Delivered(t) ==
    \/ \E values \in Values : ResolveForm(t, values)
    \/ \E formNonces \in TokenLists : t \in Range(formNonces) /\ CancelForm(formNonces)
    \/ \E c \in Calls : frameNonce[c] = t /\ (Abort(c) \/ PanelHidden)

\* C17: a pending promise is settled only by a step that delivers a resolveForm
\* or a cancelForm for its nonce, and a transform call awaiting its
\* registration promise returns or fails only in such a step: no other step of
\* the content script settles a request.
PendingUntilDelivered ==
    [][/\ \A h \in Handles :
             (promise[h].nonce # 0 /\ promise[h].state = "pending"
                 /\ promise'[h].state # "pending")
               => Delivered(promise[h].nonce)
       /\ \A c \in Calls :
             (pc[c] = "registerForm" /\ (pc'[c] # pc[c] \/ result'[c] # result[c]))
               => Delivered(frameNonce[c])]_vars

\* The first transform call is still awaiting its registration promise when a
\* second one, begun later, has been aborted by its caller and has settled.
PendingUntilDeliveredWitness ==
    /\ pc[1] = "registerForm"
    /\ result[1].state = "pending"
    /\ promise[registration[1]].state = "pending"
    /\ pc[2] = "done"
    /\ aborted[2]

\* What a step on nonce t leaves alone: the entries of the other nonces and
\* every promise but that of t's entry.
OthersUnchanged(t) ==
    /\ \A u \in Tokens \ {t} : forms'[u] = forms[u]
    /\ \A h \in Handles \ {forms[t].registration} : promise'[h] = promise[h]

\* C18: resolveForm(t, v) and cancelForm(t) change nothing of any other token's
\* entry, definition or promise, and of two transform calls the one that is
\* not resolved, cancelled or aborted stays pending with its surface on display.
OtherTokensUntouched ==
    [][/\ \A t \in Tokens :
             ((\E values \in Values : ResolveForm(t, values)) \/ CancelForm(<<t>>))
                 => OthersUnchanged(t)
       /\ \A c, d \in Calls :
             (c # d /\ pc[d] = "registerForm" /\ frameNonce[c] # 0
                 /\ \/ \E values \in Values : ResolveForm(frameNonce[c], values)
                    \/ CancelForm(<<frameNonce[c]>>)
                    \/ Abort(c))
               => /\ Untouched(d)
                  /\ result'[d].state = "pending"
                  /\ forms'[frameNonce[d]] # NoForm
                  /\ frameNonce[d] \in modals' \cup sidebarForms']_vars

\* Two transform calls were pending; the user submitted the form of one, and
\* the other is still pending with its entry and its surface.
OtherTokensUntouchedWitness ==
    \E c, d \in Calls :
        /\ pc[c] = "done"
        /\ result[c] = Fulfilled("{}")
        /\ teardowns[frameNonce[c]] = 1
        /\ pc[d] = "registerForm"
        /\ result[d].state = "pending"
        /\ forms[frameNonce[d]] = RegisteredForm(formDefinition[d], registration[d])
        /\ Displayed(d)

\* C19: while a surface transform has shown is on display and the call has not
\* settled, the store holds the entry of its nonce, and getFormDefinition for
\* the nonce returns the call's definition.
SurfaceHasEntry ==
    \A c \in Calls :
        (Displayed(c) /\ result[c].state = "pending")
            => /\ forms[frameNonce[c]] # NoForm
               /\ getFormDefinition(StoreOf(World), frameNonce[c])
                     = [outcome |-> "ok", value |-> formDefinition[c]]

\* A modal and a sidebar form on display at once, each with its entry.
SurfaceHasEntryWitness ==
    \E c, d \in Calls :
        /\ frameNonce[c] \in modals
        /\ frameNonce[d] \in sidebarForms
        /\ result[c].state = "pending"
        /\ result[d].state = "pending"
        /\ forms[frameNonce[c]].registration = registration[c]
        /\ forms[frameNonce[d]].registration = registration[d]

\* C20: while a token has a pending entry, the definition stored for it is the
\* one its registerForm was given and does not change, and every
\* getFormDefinition for the token returns it.
DefinitionKept ==
    [][\A t \in Tokens :
          /\ \A definition \in Definitions :
                (RegisterFormCall(t, definition) /\ forms[t] = NoForm)
                    => forms'[t].definition = definition
          /\ (forms[t] # NoForm /\ forms'[t] # NoForm)
                => forms'[t].definition = forms[t].definition
          /\ (GetFormDefinitionCall(t) /\ forms[t] # NoForm)
                => /\ lastCall'.outcome = "ok"
                   /\ lastCall'.value = forms[t].definition]_vars

\* C21: only registerForm, resolveForm and cancelForm change the store or a
\* promise: a getFormDefinition, whether it returns a definition or throws,
\* leaves every entry and every promise as it found them.
StoreChangesOnlyInThree ==
    /\ (forms # before.forms \/ promise # before.promise)
          => lastCall.op \in {"registerForm", "resolveForm", "cancelForm"}
    /\ lastCall.op = "getFormDefinition"
          => (forms = before.forms /\ promise = before.promise)

\* A getFormDefinition that returned the definition of a pending entry, with
\* another request already cancelled.
StoreChangesOnlyInThreeWitness ==
    \E h \in Handles :
        /\ lastCall.op = "getFormDefinition"
        /\ lastCall.outcome = "ok"
        /\ lastCall.value = FormDefinition(FALSE, "Submit")
        /\ forms[lastCall.args[1]].definition = lastCall.value
        /\ promise[forms[lastCall.args[1]].registration].state = "pending"
        /\ promise[h].state = "rejected"

\* C22: in sidebar mode no form entry is in the sidebar and no entry in the
\* store before ensureSidebar has completed, and the request is not registered
\* without its form entry inserted; when ensureSidebar fails, transform rejects
\* with its error, having inserted no form entry and registered nothing.
SidebarOrder ==
    \A c \in Calls :
        location[c] = "sidebar" =>
            /\ pc[c] \in {"createFrameSource", "ensureSidebar"}
                  => /\ frameNonce[c] \notin sidebarForms
                     /\ forms[frameNonce[c]] = NoForm
                     /\ registration[c] = 0
            /\ forms[frameNonce[c]] # NoForm => frameNonce[c] \in sidebarForms
            /\ (pc[c] = "done" /\ registration[c] = 0)
                  => /\ result[c] = Rejected("SidebarError")
                     /\ frameNonce[c] \notin sidebarForms
                     /\ forms[frameNonce[c]] = NoForm
                     /\ teardowns[frameNonce[c]] = 0

\* ensureSidebar failed for one sidebar call and completed for another, whose
\* form is in the sidebar and registered.
SidebarOrderWitness ==
    \E c, d \in Calls :
        /\ location[c] = "sidebar"
        /\ pc[c] = "done"
        /\ result[c] = Rejected("SidebarError")
        /\ location[d] = "sidebar"
        /\ pc[d] = "registerForm"
        /\ frameNonce[d] \in sidebarForms
        /\ forms[frameNonce[d]] # NoForm

\* C23: a form entry leaves the sidebar only in the step that settles the
\* sidebar call it belongs to, and no step of transform or of the protocol
\* hides the sidebar: only the PANEL_HIDING_EVENT of the host does.
OnlyOwnFormEntry ==
    [][/\ (sidebarOpen /\ ~sidebarOpen') => PanelHidden
       /\ \A t \in sidebarForms \ sidebarForms' :
             \E c \in Calls :
                 /\ frameNonce[c] = t
                 /\ location[c] = "sidebar"
                 /\ pc[c] = "registerForm"
                 /\ pc'[c] = "done"]_vars

\* A sidebar call has settled with the user's values and its form entry is
\* gone; the sidebar is still open and holds the form of another call.
OnlyOwnFormEntryWitness ==
    \E c, d \in Calls :
        /\ location[c] = "sidebar"
        /\ result[c].state = "fulfilled"
        /\ frameNonce[c] \notin sidebarForms
        /\ teardowns[frameNonce[c]] = 1
        /\ sidebarOpen
        /\ location[d] = "sidebar"
        /\ frameNonce[d] \in sidebarForms
        /\ result[d].state = "pending"

\* C24: for the locations modal and sidebar, the frame source transform builds
\* carries the call's nonce and a mode that is modal or panel.
DescriptorMode ==
    \A c \in Calls :
        (location[c] \in {"modal", "sidebar"} /\ frameSource[c] # NoSource)
            => /\ frameSource[c].nonce = frameNonce[c]
               /\ frameSource[c].mode \in {"modal", "panel"}

\* C25: a transform call whose location is neither modal nor sidebar shows no
\* surface and registers no entry, and once createFrameSource has returned it
\* has failed with a configuration error.
UnhandledLocationFails ==
    \A c \in Calls :
        (pc[c] # "idle" /\ location[c] \notin {"modal", "sidebar"})
            => /\ ~Displayed(c)
               /\ forms[frameNonce[c]] = NoForm
               /\ registration[c] = 0
               /\ pc[c] # "createFrameSource"
                     => result[c] = Rejected("ConfigurationError")

\* ------------------------------------------------ claims about the locator
\* A _refresh whose promise has not settled.
InFlight == {r \in Refreshes : refreshes[r] = "pending"}

\* The refresh a caller's refresh() awaited has settled.
AwaitedSettled(k) == refreshes[caller[k].awaiting] \in {"fulfilled", "rejected"}

\* C26: while a refresh() is in flight no further call starts another
\* _refresh, so at most one _refresh is running at any time, and a caller
\* that has completed through refresh() awaited a refresh that has completed.
SingleRefreshInFlight ==
    /\ Cardinality(InFlight) <= 1
    /\ \A k \in Callers :
          caller[k].pc = "done" /\ caller[k].awaiting # 0 => AwaitedSettled(k)

\* C27: the error of a failed refresh is the outcome of every caller that
\* awaited it, initialized is true exactly once some refresh has succeeded,
\* the marker no longer names the attempt a completed caller awaited, and no
\* call begins to await an attempt that has already failed.
FailedRefreshNotReused ==
    /\ \A k \in Callers :
          /\ caller[k].pc = "done"
          /\ caller[k].awaiting # 0
          /\ refreshes[caller[k].awaiting] = "rejected"
          => /\ caller[k].outcome = "error"
             /\ refreshPromise # caller[k].awaiting
    /\ initialized <=> \E r \in Refreshes : refreshes[r] = "fulfilled"
    /\ \A k \in Callers : caller[k].joined # "rejected"


\* -------------------------------------------- claims about returned configs
\* The properties the schema declares with a type that references a secret.
SecretKeys ==
    {key \in DOMAIN service.properties :
        service.properties[key] \in {REF_SECRETS[1], REF_SECRETS[2]}}

\* Two stored configurations that differ in secret properties at most.
DifferOnlyInSecrets(c, d) ==
    \A key \in Keys \ SecretKeys : get(c, key) = get(d, key)

\* C28: every property of a returned configuration is one the schema declares
\* with a type that does not reference the secret key schema, and two stored
\* configurations that differ only in secret properties are returned as the
\* same sanitized config.
SecretsExcluded ==
    /\ \A id \in DOMAIN located :
          located[id] # NotLocated =>
              DOMAIN located[id].config
                  \subseteq DOMAIN service.properties \ SecretKeys
    /\ \A id \in DOMAIN located, other \in DOMAIN located :
          /\ located[id] # NotLocated
          /\ located[other] # NotLocated
          /\ DifferOnlyInSecrets(options[id].config, options[other].config)
          => located[id].config = located[other].config

\* C28 witness: both configurations have been returned, they differ in the
\* value of a property declared with each of the two secret references and
\* in nothing else, and the returned config still carries a property.
SecretsExcludedWitness ==
    /\ located # <<>>
    /\ \A id \in AuthIds : located[id] # NotLocated
    /\ service.properties = (1 :> REF_SECRETS[2]) @@ (2 :> "undefined")
    /\ options[1].config = (1 :> "a") @@ (2 :> "b")
    /\ options[2].config = (1 :> "b") @@ (2 :> "b")
    /\ located[1].config = (2 :> "b")
    /\ located[2].config = located[1].config

\* ---------------------------------------------------- claims about RunProcess
\* transform awaits the result of exactly one started job.
AwaitsOneJob ==
    /\ runPc # "idle"
    /\ blockArg.awaitResult
    /\ startResponse = [state |-> "fulfilled", jobs |-> 1]

DidNotFinish == thrown(BusinessError("UiPath job did not finish"))

\* C29: with awaitResult and one started job, once a poll has observed
\* Successful the call has returned the parsed OutputArguments, whatever they
\* are; once a poll has observed Faulted or no job the call has failed with
\* a BusinessError; and it fails with 'did not finish' only if no poll has
\* observed Successful.
AwaitedResultReturned ==
    AwaitsOneJob =>
        /\ "Successful" \in observed
           => runResult = returned(JSONparse(uipathJob.OutputArguments))
        /\ observed \cap {"Faulted", "Missing"} # {}
           => /\ runResult.state = "rejected"
              /\ runResult.value.kind = "BusinessError"
        /\ runResult = DidNotFinish => "Successful" \notin observed

\* C30: without awaitResult the StartJobs request is sent once, the call has
\* returned {} by the time it is sent, whether the request is still under
\* way, has succeeded or has failed, and no poll is ever sent.
FireAndForget ==
    runPc # "idle" /\ ~blockArg.awaitResult =>
        /\ startRequests = 1
        /\ pollRequests = 0
        /\ runPc = "done"
        /\ runResult = returned(Value("object", ""))

\* C30 witness: the call without awaitResult has returned {} and its
\* StartJobs request has failed afterwards.
FireAndForgetWitness ==
    /\ runPc = "done"
    /\ ~blockArg.awaitResult
    /\ startResponse.state = "rejected"
    /\ runResult = returned(Value("object", ""))
    /\ startRequests = 1

====
